---- MODULE Spec2Model ----
(***************************************************************************)
(* Model of the IBP GeoDNS Prometheus exporter (src/src/metrics).          *)
(*                                                                         *)
(* MetricsService keeps three prom-client metrics and a per-member cache;  *)
(* MetricsController serves two routes, each "refresh, then render".  The  *)
(* handlers are async functions on one Node.js event loop: a handler runs  *)
(* without interruption until it awaits an upstream (HTTP) call, and every *)
(* action below is one such uninterrupted run.                             *)
(*                                                                         *)
(* Strings are TLA+ strings; Len, SubSeq and \o act on them character by   *)
(* character.                                                              *)
(***************************************************************************)
EXTENDS Integers, Sequences, FiniteSets, TLC

(***************************************************************************)
(* String primitives (JavaScript String methods used by the service).      *)
(***************************************************************************)
UpperChars == "ABCDEFGHIJKLMNOPQRSTUVWXYZ"
LowerChars == "abcdefghijklmnopqrstuvwxyz"
DigitChars == "0123456789"

CharAt(s, i) == SubSeq(s, i, i)

\* Position of the one-character string c in alphabet, 0 when absent.
IndexIn(alphabet, c) ==
  IF \E i \in 1..Len(alphabet) : CharAt(alphabet, i) = c
  THEN CHOOSE i \in 1..Len(alphabet) : CharAt(alphabet, i) = c
  ELSE 0

\* toLowerCase / toUpperCase of one character, as tables over the letters.
LowerOf == [c \in {CharAt(UpperChars, i) : i \in 1..Len(UpperChars)} |->
              CharAt(LowerChars, IndexIn(UpperChars, c))]
UpperOf == [c \in {CharAt(LowerChars, i) : i \in 1..Len(LowerChars)} |->
              CharAt(UpperChars, IndexIn(LowerChars, c))]
DigitOf == [c \in {CharAt(DigitChars, i) : i \in 1..Len(DigitChars)} |->
              IndexIn(DigitChars, c) - 1]

LowerChar(c) == IF c \in DOMAIN LowerOf THEN LowerOf[c] ELSE c

UpperChar(c) == IF c \in DOMAIN UpperOf THEN UpperOf[c] ELSE c

RECURSIVE ToLowerCase(_)
ToLowerCase(s) ==
  IF Len(s) = 0 THEN ""
  ELSE LowerChar(CharAt(s, 1)) \o ToLowerCase(SubSeq(s, 2, Len(s)))

\* a.includes(b)
Includes(a, b) ==
  \E i \in 0..(Len(a) - Len(b)) : SubSeq(a, i + 1, i + Len(b)) = b

\* s.split(sep)[0] for a one-character separator
RECURSIVE BeforeFirst(_, _)
BeforeFirst(s, sep) ==
  IF Len(s) = 0 \/ CharAt(s, 1) = sep THEN ""
  ELSE CharAt(s, 1) \o BeforeFirst(SubSeq(s, 2, Len(s)), sep)

IsSpace(c) == c \in {" ", "\t", "\n"}

\* s.replace(/\s+/g, '-'): every maximal run of white space becomes one hyphen
RECURSIVE SpacesToHyphen(_)
SpacesToHyphen(s) ==
  IF Len(s) = 0 THEN ""
  ELSE IF IsSpace(CharAt(s, 1))
       THEN IF Len(s) > 1 /\ IsSpace(CharAt(s, 2))
            THEN SpacesToHyphen(SubSeq(s, 2, Len(s)))
            ELSE "-" \o SpacesToHyphen(SubSeq(s, 2, Len(s)))
       ELSE CharAt(s, 1) \o SpacesToHyphen(SubSeq(s, 2, Len(s)))

\* s.split('-').map(w => w.charAt(0).toUpperCase() + w.slice(1)).join('-'):
\* the first character of every hyphen-separated word is upper-cased.
RECURSIVE CapitalizeFrom(_, _)
CapitalizeFrom(s, i) ==
  IF i > Len(s) THEN ""
  ELSE (IF i = 1 \/ CharAt(s, i - 1) = "-" THEN UpperChar(CharAt(s, i)) ELSE CharAt(s, i))
       \o CapitalizeFrom(s, i + 1)

CapitalizeWords(s) == CapitalizeFrom(s, 1)

\* Number.prototype.toString() of a natural number
RECURSIVE NumberToString(_)
NumberToString(n) ==
  IF n < 10 THEN CharAt(DigitChars, n + 1)
  ELSE NumberToString(n \div 10) \o CharAt(DigitChars, (n % 10) + 1)

\* parseInt(s, 10) of a string without sign or leading white space: the value of
\* its longest prefix of digits, NaN when that prefix is empty.
RECURSIVE ParseDigits(_, _, _)
ParseDigits(s, i, acc) ==
  IF i > Len(s) \/ CharAt(s, i) \notin DOMAIN DigitOf THEN acc
  ELSE ParseDigits(s, i + 1, 10 * acc + DigitOf[CharAt(s, i)])

ParseInt(s) ==
  IF Len(s) = 0 \/ CharAt(s, 1) \notin DOMAIN DigitOf
  THEN [nan |-> TRUE, val |-> 0]
  ELSE [nan |-> FALSE, val |-> ParseDigits(s, 1, 0)]

\* level > requiredLevel, false when requiredLevel is NaN
NumGreater(level, requiredLevel) == ~requiredLevel.nan /\ level > requiredLevel.val

\* level >= requiredLevel, false when requiredLevel is NaN
NumGeq(level, requiredLevel) == ~requiredLevel.nan /\ level >= requiredLevel.val

(***************************************************************************)
(* Pure helpers of MetricsService.                                         *)
(***************************************************************************)
\* service.replace(/\s+/g, '-')
ServiceSlugKeepCase(service) == SpacesToHyphen(service)

\* service.toLowerCase().replace(/\s+/g, '-')
ServiceSlug(service) == SpacesToHyphen(ToLowerCase(service))

createDefaultDomain(service) == ServiceSlug(service) \o ".ibp.network"

mapEndpointToServiceName(endpoint) == CapitalizeWords(endpoint)

\* domain.split('.')[0].toLowerCase()
DomainPrefix(domain) == ToLowerCase(BeforeFirst(domain, "."))

\* a.includes(b) || b.includes(a)
IncludesEither(a, b) == Includes(a, b) \/ Includes(b, a)

\* The first loop of matchServiceFromDomain accepts this candidate.
SubstringMatch(domainPrefix, service) == IncludesEither(domainPrefix, ServiceSlug(service))

\* The second loop of matchServiceFromDomain accepts this candidate.
ReconstructedMatch(serviceName, service) ==
  ToLowerCase(service) = ToLowerCase(serviceName)

\* Index of the first TRUE of the sequence of booleans tests, 0 when there is none.
FirstIndex(tests) ==
  IF \E i \in 1..Len(tests) : tests[i]
  THEN CHOOSE i \in 1..Len(tests) : tests[i] /\ \A j \in 1..(i - 1) : ~tests[j]
  ELSE 0

\* if (reconstructedIndex > 0) return it; else if (substringIndex > 0) ...
matchResultExactFirst(availableServices, substringIndex, reconstructedIndex, serviceName) ==
  IF reconstructedIndex > 0 THEN availableServices[reconstructedIndex]
  ELSE IF substringIndex > 0 THEN availableServices[substringIndex]
  ELSE serviceName

\* The three return statements of matchServiceFromDomain: substringIndex and
\* reconstructedIndex are the positions at which the first and the second loop
\* return, 0 for a loop that runs to its end.
matchResult(availableServices, substringIndex, reconstructedIndex, serviceName) ==
  IF substringIndex > 0 THEN availableServices[substringIndex]
  ELSE IF reconstructedIndex > 0 THEN availableServices[reconstructedIndex]
  ELSE serviceName

\* matchServiceFromDomain from the declaration of serviceName on.
matchReconstructed(domainPrefix, serviceName, availableServices) ==
  matchResult(availableServices,
              FirstIndex([i \in 1..Len(availableServices) |->
                            SubstringMatch(domainPrefix, availableServices[i])]),
              FirstIndex([i \in 1..Len(availableServices) |->
                            ReconstructedMatch(serviceName, availableServices[i])]),
              serviceName)

\* matchServiceFromDomain from the declaration of domainPrefix on.
matchPrefix(domainPrefix, availableServices) ==
  matchReconstructed(domainPrefix, CapitalizeWords(domainPrefix), availableServices)

matchServiceFromDomain(domain, availableServices) ==
  matchPrefix(DomainPrefix(domain), availableServices)

\* Which return statement of matchServiceFromDomain is taken: that of the first
\* loop ("substring"), that of the second loop ("reconstructed") or the last
\* ("fallback").
matchStageAt(substringIndex, reconstructedIndex) ==
  IF substringIndex > 0 THEN "substring"
  ELSE IF reconstructedIndex > 0 THEN "reconstructed"
  ELSE "fallback"

matchStageFrom(domainPrefix, serviceName, availableServices) ==
  matchStageAt(FirstIndex([i \in 1..Len(availableServices) |->
                             SubstringMatch(domainPrefix, availableServices[i])]),
               FirstIndex([i \in 1..Len(availableServices) |->
                             ReconstructedMatch(serviceName, availableServices[i])]))

matchStagePrefix(domainPrefix, availableServices) ==
  matchStageFrom(domainPrefix, CapitalizeWords(domainPrefix), availableServices)

matchStage(domain, availableServices) ==
  matchStagePrefix(DomainPrefix(domain), availableServices)

\* A JavaScript Set<string> is a duplicate-free sequence in insertion order.
SeqHas(seq, v) == \E i \in 1..Len(seq) : seq[i] = v
SeqAdd(seq, v) == IF SeqHas(seq, v) THEN seq ELSE Append(seq, v)
SeqSet(seq) == {seq[i] : i \in 1..Len(seq)}

RECURSIVE AddEndpoints(_, _, _)
AddEndpoints(requiredServices, endpoints, i) ==
  IF i > Len(endpoints) THEN requiredServices
  ELSE AddEndpoints(SeqAdd(requiredServices, mapEndpointToServiceName(endpoints[i])),
                    endpoints, i + 1)

\* servicesConfig is the sequence of Object.entries(servicesConfig) values, each
\* [level_required: string, endpoints: sequence of Object.keys(config.endpoints)].
RECURSIVE RequiredFrom(_, _, _, _)
RequiredFrom(requiredServices, level, servicesConfig, i) ==
  IF i > Len(servicesConfig) THEN requiredServices
  ELSE RequiredFrom(
         IF NumGeq(level, ParseInt(servicesConfig[i].level_required))
         THEN AddEndpoints(requiredServices, servicesConfig[i].endpoints, 1)
         ELSE requiredServices,
         level, servicesConfig, i + 1)

getRequiredServicesByLevel(level, servicesConfig) ==
  RequiredFrom(<<>>, level, servicesConfig, 1)

(***************************************************************************)
(* The registry: three metrics, each a map from a label record to a value. *)
(***************************************************************************)
EmptyMetric == [k \in {} |-> 0]

EmptyRegistry == [member |-> EmptyMetric, service |-> EmptyMetric, events |-> EmptyMetric]

\* Gauge.set(labels, value)
MetricSet(metric, labels, value) ==
  [k \in DOMAIN metric \cup {labels} |-> IF k = labels THEN value ELSE metric[k]]

\* Counter.inc(labels)
MetricInc(metric, labels) ==
  [k \in DOMAIN metric \cup {labels} |->
     IF k = labels THEN (IF labels \in DOMAIN metric THEN metric[labels] + 1 ELSE 1)
     ELSE metric[k]]

\* memberStatusGauge.reset(); serviceStatusGauge.reset(); downtimeEventCounter.reset()
ResetNothing(reg) == reg

ResetAll(reg) == EmptyRegistry

(***************************************************************************)
(* Reconciliation: what one pass writes to the registry for one member's   *)
(* CachedMemberData [member, downtimeEvents, requiredServices,             *)
(* servicesConfig, fetchedAt].                                             *)
(***************************************************************************)
MemberLabels(member) ==
  [member |-> member.name, region |-> member.region, level |-> NumberToString(member.level)]

ServiceLabels(member, service, domain, check_type, check_name) ==
  [member |-> member.name, service |-> service, domain |-> domain,
   check_type |-> check_type, check_name |-> check_name,
   level |-> NumberToString(member.level)]

EventLabels(member, service, event) ==
  [member |-> member.name, service |-> service, domain |-> event.domain_name,
   check_type |-> event.check_type, check_name |-> event.check_name,
   status |-> event.status]

\* `${domain}:${check_type}:${check_name}`
CombinationKey(domain, check_type, check_name) ==
  domain \o ":" \o check_type \o ":" \o check_name

\* event.status === 'ongoing' ? 0 : 1
StatusValueInverted(status) == IF status = "ongoing" THEN 1 ELSE 0

StatusValue(status) == IF status = "ongoing" THEN 0 ELSE 1

\* memberStatusGauge.set({...}, 1)
SetMemberStatusUp(reg, member) ==
  [reg EXCEPT !.member = MetricSet(@, MemberLabels(member), 1)]

\* memberStatusGauge.set({member, region, level}, member.active ? 1 : 0)
SetMemberStatus(reg, member) ==
  [reg EXCEPT !.member = MetricSet(@, MemberLabels(member), IF member.active THEN 1 ELSE 0)]

\* downtimeEventCounter.inc(...) and serviceStatusGauge.set(...) for one event
RecordEvent(reg, member, serviceName, event) ==
  [reg EXCEPT
     !.events = MetricInc(@, EventLabels(member, serviceName, event)),
     !.service = MetricSet(@, ServiceLabels(member, serviceName, event.domain_name,
                                            event.check_type, event.check_name),
                           StatusValue(event.status))]

\* The loop state of a pass over one member: the registry and the two local sets.
PassState(reg) == [reg |-> reg, trackedCombinations |-> {}, servicesWithEvents |-> {}]

\* trackedCombinations.add(combinationKey); servicesWithEvents.add(serviceName)
TrackEvent(st, serviceName, event) ==
  [st EXCEPT
     !.trackedCombinations =
        @ \cup {CombinationKey(event.domain_name, event.check_type, event.check_name)},
     !.servicesWithEvents = @ \cup {serviceName}]

\* One iteration of the event loop of updateMetricsForMember from the
\* declaration of serviceName on: the event is recorded as seen before its
\* member_name is compared.
EventStepOneAs(st, member, event, serviceName) ==
  IF event.member_name # member.name THEN TrackEvent(st, serviceName, event)
  ELSE [TrackEvent(st, serviceName, event) EXCEPT
          !.reg = RecordEvent(@, member, serviceName, event)]

EventStepOne(st, member, event) ==
  EventStepOneAs(st, member, event,
                 matchServiceFromDomain(event.domain_name, member.services))

\* One iteration of the event loop of updateMetricsForAllMembers from the
\* declaration of serviceName on.
EventStepAllAs(st, member, event, serviceName) ==
  [TrackEvent(st, serviceName, event) EXCEPT
     !.reg = RecordEvent(@, member, serviceName, event)]

\* One iteration of the event loop of updateMetricsForAllMembers: the
\* member_name comparison comes first.
EventStepAll(st, member, event) ==
  IF event.member_name # member.name THEN st
  ELSE EventStepAllAs(st, member, event,
                      matchServiceFromDomain(event.domain_name, member.services))

RECURSIVE EventLoopOne(_, _, _, _)
EventLoopOne(st, member, downtimeEvents, i) ==
  IF i > Len(downtimeEvents) THEN st
  ELSE EventLoopOne(EventStepOne(st, member, downtimeEvents[i]), member, downtimeEvents, i + 1)

RECURSIVE EventLoopAll(_, _, _, _)
EventLoopAll(st, member, downtimeEvents, i) ==
  IF i > Len(downtimeEvents) THEN st
  ELSE EventLoopAll(EventStepAll(st, member, downtimeEvents[i]), member, downtimeEvents, i + 1)

\* The same iteration without "if (!trackedCombinations.has(combinationKey))".
RequiredStepAtUnguarded(st, member, requiredService, defaultDomain) ==
  IF /\ requiredService \notin st.servicesWithEvents
     /\ SeqHas(member.services, requiredService)
  THEN [st EXCEPT
          !.reg.service = MetricSet(@, ServiceLabels(member, requiredService, defaultDomain,
                                                     "required", "no-stats"), 1),
          !.trackedCombinations = @ \cup {CombinationKey(defaultDomain, "required", "no-stats")}]
  ELSE st

\* One iteration of "for (const requiredService of requiredServices)" from the
\* declaration of defaultDomain on.
RequiredStepAt(st, member, requiredService, defaultDomain) ==
  IF /\ requiredService \notin st.servicesWithEvents
     /\ SeqHas(member.services, requiredService)
     /\ CombinationKey(defaultDomain, "required", "no-stats") \notin st.trackedCombinations
  THEN [st EXCEPT
          !.reg.service = MetricSet(@, ServiceLabels(member, requiredService, defaultDomain,
                                                     "required", "no-stats"), 1),
          !.trackedCombinations = @ \cup {CombinationKey(defaultDomain, "required", "no-stats")}]
  ELSE st

RequiredStep(st, member, requiredService) ==
  RequiredStepAt(st, member, requiredService, createDefaultDomain(requiredService))

RECURSIVE RequiredLoop(_, _, _, _)
RequiredLoop(st, member, requiredServices, i) ==
  IF i > Len(requiredServices) THEN st
  ELSE RequiredLoop(RequiredStep(st, member, requiredServices[i]), member, requiredServices, i + 1)

\* One iteration of "for (const service of member.services)" under
\* member.active, from the declaration of defaultDomain on.
DefaultStepAt(st, member, service, defaultDomain) ==
  IF CombinationKey(defaultDomain, "default", "default") \notin st.trackedCombinations
  THEN [st EXCEPT
          !.reg.service = MetricSet(@, ServiceLabels(member, service, defaultDomain,
                                                     "default", "default"), 1)]
  ELSE st

DefaultStep(st, member, requiredServices, service) ==
  IF service \notin st.servicesWithEvents /\ ~SeqHas(requiredServices, service)
  THEN DefaultStepAt(st, member, service, createDefaultDomain(service))
  ELSE st

RECURSIVE DefaultLoopFrom(_, _, _, _)
DefaultLoopFrom(st, member, requiredServices, i) ==
  IF i > Len(member.services) THEN st
  ELSE DefaultLoopFrom(DefaultStep(st, member, requiredServices, member.services[i]),
                       member, requiredServices, i + 1)

\* "if (member.active) { for (const service of member.services) ... }"
DefaultLoopAlways(st, member, requiredServices) ==
  DefaultLoopFrom(st, member, requiredServices, 1)

DefaultLoop(st, member, requiredServices) ==
  IF member.active THEN DefaultLoopFrom(st, member, requiredServices, 1) ELSE st

\* updateMetricsForMember after its await: everything it writes for cachedData
\* (member gauge, event loop, required loop, default loop).
ReconcileOne(reg, cachedData) ==
  DefaultLoop(
    RequiredLoop(
      EventLoopOne(PassState(SetMemberStatus(reg, cachedData.member)),
                   cachedData.member, cachedData.downtimeEvents, 1),
      cachedData.member, cachedData.requiredServices, 1),
    cachedData.member, cachedData.requiredServices).reg

\* One iteration of the member loop of updateMetricsForAllMembers, after its await.
ReconcileAll(reg, cachedData) ==
  DefaultLoop(
    RequiredLoop(
      EventLoopAll(PassState(SetMemberStatus(reg, cachedData.member)),
                   cachedData.member, cachedData.downtimeEvents, 1),
      cachedData.member, cachedData.requiredServices, 1),
    cachedData.member, cachedData.requiredServices).reg

(***************************************************************************)
(* The upstream API (external): the member listing, the downtime events    *)
(* per member and the service-tier configuration.                          *)
(***************************************************************************)
Member(name, region, level, active, services) ==
  [name |-> name, region |-> region, level |-> level, active |-> active, services |-> services]

Event(member_name, domain_name, check_type, check_name, status) ==
  [member_name |-> member_name, domain_name |-> domain_name, check_type |-> check_type,
   check_name |-> check_name, status |-> status]

\* Tier 1 requires polkadot, tier 2 requires kusama as well.
TierConfig ==
  << [level_required |-> "1", endpoints |-> <<"polkadot">>],
     [level_required |-> "2", endpoints |-> <<"kusama">>] >>

MemberNames == {"A", "B"}

Dataset(members, eventsA, eventsB) ==
  [members |-> members,
   events |-> [n \in MemberNames |-> IF n = "A" THEN eventsA ELSE eventsB],
   servicesConfig |-> TierConfig]

\* How the upstream data evolves while the exporter runs: first both members are
\* listed; then A turns inactive, loses a service and its events, and B leaves
\* the listing; finally A leaves the listing and B is back.
WorldScript ==
  << Dataset(<< Member("A", "eu", 1, TRUE, <<"Polkadot", "Kusama">>),
                Member("B", "us", 2, TRUE, <<"Kusama">>) >>,
             << Event("A", "polkadot.ibp.network", "endpoint", "rpc", "ongoing") >>,
             << Event("B", "kusama.ibp.network", "endpoint", "wss", "resolved") >>),
     Dataset(<< Member("A", "eu", 1, FALSE, <<"Polkadot">>) >>,
             << >>,
             << >>),
     Dataset(<< Member("B", "us", 2, TRUE, <<"Kusama">>) >>,
             << >>,
             << Event("B", "kusama.ibp.network", "endpoint", "wss", "ongoing") >>) >>

(***************************************************************************)
(* Inputs of a single pass: every record of member A below, with every     *)
(* sequence of at most MaxEvents of the events below, listed after B.      *)
(***************************************************************************)
MaxEvents == 2

PassServiceLists ==
  { <<"Polkadot", "Kusama">>, <<"Asset-Hub-Kusama", "Kusama">>, <<"Polkadot">> }

PassLevels == {1, 2}

PassMembers ==
  { Member("A", "eu", level, active, services) :
      level \in PassLevels, active \in BOOLEAN, services \in PassServiceLists }

\* Two events on one check with different statuses, an event of another member,
\* events that carry the labels of the synthesized entries, and a domain that
\* matches no service.
PassEvents ==
  { Event("A", "polkadot.ibp.network", "endpoint", "rpc", "ongoing"),
    Event("A", "polkadot.ibp.network", "endpoint", "rpc", "resolved"),
    Event("B", "kusama.ibp.network", "endpoint", "rpc", "ongoing"),
    Event("A", "kusama.ibp.network", "default", "default", "resolved"),
    Event("A", "kusama.ibp.network", "required", "no-stats", "ongoing"),
    Event("A", "unknown-thing.ibp.network", "endpoint", "rpc", "ongoing") }

SeqsUpTo(S, n) == UNION { [1..k -> S] : k \in 0..n }

PassWorlds ==
  { Dataset(<< Member("B", "us", 2, TRUE, <<"Kusama">>), m >>,
            evs,
            << Event("B", "kusama.ibp.network", "endpoint", "wss", "ongoing") >>) :
      m \in PassMembers, evs \in SeqsUpTo(PassEvents, MaxEvents) }

(***************************************************************************)
(* State.                                                                  *)
(***************************************************************************)
NumProcs == 2
Procs == 1..NumProcs

\* parseInt(process.env.METRICS_CACHE_TTL_SECONDS || '15', 10) * 1000
DefaultTtlSeconds == "15"
cacheTtlMs == ParseInt(DefaultTtlSeconds).val * 1000

\* The clock advances in steps of cacheTtlMs / TicksPerTtl: MaxTicks times at
\* most when requests come one after the other, MaxTicksConcurrent times at
\* most when they overlap.
TicksPerTtl == 2
MaxTicks == 3
MaxTicksConcurrent == 1
TickMs == cacheTtlMs \div TicksPerTtl

VARIABLES
  upstream,     \* the data the upstream API serves now
  now,          \* Date.now()
  memberCache,  \* MetricsService.memberCache: Map<string, CachedMemberData>
  registry,     \* the three metrics of MetricsService.registry
  pc,           \* per request handler: "idle", the upstream call it awaits, or "done"
  req,          \* per request handler: its local variables
  resp,         \* per request handler: the HTTP response it sent (status, body)
  hist          \* per request handler: history of its pass, read by the properties only

vars == <<upstream, now, memberCache, registry, pc, req, resp, hist>>

NoReq == [op |-> "none", name |-> "", members |-> <<>>, idx |-> 0, member |-> <<>>, events |-> <<>>]
NoResp == [status |-> 0, body |-> EmptyRegistry]
\* History of one pass:
\*   calls    the upstream calls issued, in order
\*   used     the CachedMemberData reconciled, in order
\*   skipped  the members updateMetricsForAllMembers skipped, in order
\*   expired  the cache entries a lookup found expired, in order
\*   absent   the upstream listed no member of the requested name, at the
\*            request and at every answer to its member lookup so far
\*   lookup   how the latest member lookup ended: "failed" (transport),
\*            "absent" or "present" in the listing the upstream served
\*   served   what the upstream held when the latest events call ended
\*   fills    the completed cache fills: what the upstream served for each
NoHist == [calls |-> <<>>, used |-> <<>>, skipped |-> <<>>, expired |-> <<>>,
           absent |-> FALSE, lookup |-> "", served |-> <<>>, fills |-> <<>>]

Listed(u, memberName) == \E i \in 1..Len(u.members) : u.members[i].name = memberName

\* The expired entry of memberName, if the cache holds one, as a sequence.
ExpiredEntry(cache, memberName, t) ==
  IF memberName \in DOMAIN cache /\ t - cache[memberName].fetchedAt >= cacheTtlMs
  THEN <<cache[memberName]>> ELSE <<>>

Call(api, name) == [api |-> api, name |-> name]

InitWith(u) ==
  /\ upstream = u
  /\ now = 0
  /\ memberCache = [k \in {} |-> 0]
  /\ registry = EmptyRegistry
  /\ pc = [p \in Procs |-> "idle"]
  /\ req = [p \in Procs |-> NoReq]
  /\ resp = [p \in Procs |-> NoResp]
  /\ hist = [p \in Procs |-> NoHist]

Init == InitWith(WorldScript[1])

InitAny == \E i \in 1..Len(WorldScript) : InitWith(WorldScript[i])

InitPass == \E u \in PassWorlds : InitWith(u)

(***************************************************************************)
(* MetricsService: the cache.                                              *)
(***************************************************************************)
isCacheValidInclusive(cache, memberName, t) ==
  /\ memberName \in DOMAIN cache
  /\ t - cache[memberName].fetchedAt <= cacheTtlMs

isCacheValid(cache, memberName, t) ==
  /\ memberName \in DOMAIN cache
  /\ t - cache[memberName].fetchedAt < cacheTtlMs

\* members.find((m) => m.name === memberName) || null, as a sequence of length <= 1
getMemberByName(members, memberName) ==
  IF \E i \in 1..Len(members) : members[i].name = memberName
  THEN <<members[FirstIndex([i \in 1..Len(members) |-> members[i].name = memberName])]>>
  ELSE <<>>

\* The object getCachedOrFetchMemberData stores; configOk is whether
\* getServicesConfig() returned (requiredServices stays empty when it threw).
CachedDataAllOrNothing(member, downtimeEvents, configOk, servicesConfig, t) ==
  [member |-> member,
   downtimeEvents |-> IF configOk THEN downtimeEvents ELSE <<>>,
   requiredServices |-> IF configOk THEN getRequiredServicesByLevel(member.level, servicesConfig)
                        ELSE <<>>,
   servicesConfig |-> IF configOk THEN <<servicesConfig>> ELSE <<>>,
   fetchedAt |-> t]

\* The same object with fetchedAt: Date.now() + this.cacheTtlMs
CachedDataStampedAhead(member, downtimeEvents, configOk, servicesConfig, t) ==
  [member |-> member,
   downtimeEvents |-> downtimeEvents,
   requiredServices |-> IF configOk THEN getRequiredServicesByLevel(member.level, servicesConfig)
                        ELSE <<>>,
   servicesConfig |-> IF configOk THEN <<servicesConfig>> ELSE <<>>,
   fetchedAt |-> t + cacheTtlMs]

CachedData(member, downtimeEvents, configOk, servicesConfig, t) ==
  [member |-> member,
   downtimeEvents |-> downtimeEvents,
   requiredServices |-> IF configOk THEN getRequiredServicesByLevel(member.level, servicesConfig)
                        ELSE <<>>,
   servicesConfig |-> IF configOk THEN <<servicesConfig>> ELSE <<>>,
   fetchedAt |-> t]

\* memberCache.clear(); memberCache.set(memberName, cachedData)
CacheSetOnly(cache, memberName, cachedData) ==
  [k \in {memberName} |-> cachedData]

\* memberCache.set(memberName, cachedData)
CacheSet(cache, memberName, cachedData) ==
  [k \in DOMAIN cache \cup {memberName} |-> IF k = memberName THEN cachedData ELSE cache[k]]

\* error.message.includes('not found') ? 404 : 500 (MetricsController)
NotFoundMessage(memberName) == "Member " \o memberName \o " not found"
TransportMessage == "timeout of 10000ms exceeded"
\* The messages of the errors axios raises: timeout, HTTP error status, DNS failure.
TransportMessages ==
  { TransportMessage, "Request failed with status code 404",
    "getaddrinfo ENOTFOUND ibdash.dotters.network" }

\* error.message.includes('not found') || error.message.includes('404') ? 404 : 500
MemberErrorStatusUpstream404(message) ==
  IF Includes(message, "not found") \/ Includes(message, "404") THEN 404 ELSE 500

MemberErrorStatusWrongCase(message) == IF Includes(message, "Not Found") THEN 404 ELSE 500

MemberErrorStatus(message) == IF Includes(message, "not found") THEN 404 ELSE 500

(***************************************************************************)
(* updateMetricsForAllMembers: the member loop from position i, as far as  *)
(* it runs without awaiting the upstream: members with a valid cache entry *)
(* are reconciled at once; it stops at the first member to fetch (idx = i  *)
(* <= Len(members)) or at the end of the listing (idx > Len(members)).     *)
(***************************************************************************)
RECURSIVE AllLoop(_, _, _, _, _)
AllLoop(reg, cache, members, i, t) ==
  IF i > Len(members) THEN [reg |-> reg, idx |-> i, used |-> <<>>]
  ELSE IF isCacheValid(cache, members[i], t)
       THEN [AllLoop(ReconcileAll(reg, cache[members[i]]), cache, members, i + 1, t)
               EXCEPT !.used = <<cache[members[i]]>> \o @]
       ELSE [reg |-> reg, idx |-> i, used |-> <<>>]

(***************************************************************************)
(* Actions.  Each is one uninterrupted run of a handler: from the HTTP     *)
(* request or an upstream answer to the next upstream call or to the       *)
(* response.                                                               *)
(***************************************************************************)
Respond(p, status, body) ==
  /\ pc' = [pc EXCEPT ![p] = "done"]
  /\ resp' = [resp EXCEPT ![p] = [status |-> status, body |-> body]]

\* The pass of p has left the registry as reg; getMetrics() renders it.
Rendered(p, reg) ==
  /\ registry' = reg
  /\ Respond(p, 200, reg)

\* The member loop of p has run to r = AllLoop(...): it awaits the lookup of
\* members[r.idx], or it is over and the handler renders.  h is the history
\* of p so far.
ContinueAt(p, cache, members, h, r) ==
  IF r.idx <= Len(members)
  THEN /\ registry' = r.reg
       /\ pc' = [pc EXCEPT ![p] = "member"]
       /\ req' = [req EXCEPT ![p] = [op |-> "all", name |-> members[r.idx],
                                     members |-> members, idx |-> r.idx,
                                     member |-> <<>>, events |-> <<>>]]
       /\ resp' = [resp EXCEPT ![p] = NoResp]
       /\ hist' = [hist EXCEPT ![p] =
                     [h EXCEPT !.used = @ \o r.used,
                               !.calls = Append(@, Call("getMemberByName", members[r.idx])),
                               !.expired = @ \o ExpiredEntry(cache, members[r.idx], now)]]
  ELSE /\ Rendered(p, r.reg)
       /\ req' = [req EXCEPT ![p] = [op |-> "all", name |-> "",
                                     members |-> members, idx |-> r.idx,
                                     member |-> <<>>, events |-> <<>>]]
       /\ hist' = [hist EXCEPT ![p] = [h EXCEPT !.used = @ \o r.used]]

\* The handler p goes on with the member loop at position i over registry reg
\* and cache cache; h is its history so far.
ContinueAll(p, reg, cache, members, i, h) ==
  ContinueAt(p, cache, members, h, AllLoop(reg, cache, members, i, now))

\* GET /:memberId/metrics: getMemberMetrics -> updateMetricsForMember(memberName),
\* up to the await of getMemberByName, or through getMetrics() on a cache hit.
StartOne(p, memberName) ==
  /\ pc[p] = "idle"
  /\ req' = [req EXCEPT ![p] = [NoReq EXCEPT !.op = "one", !.name = memberName]]
  /\ IF isCacheValid(memberCache, memberName, now)
     THEN /\ Rendered(p, ReconcileOne(ResetAll(registry), memberCache[memberName]))
          /\ hist' = [hist EXCEPT ![p] =
                        [NoHist EXCEPT !.used = <<memberCache[memberName]>>,
                                       !.absent = ~Listed(upstream, memberName)]]
     ELSE /\ registry' = ResetAll(registry)
          /\ pc' = [pc EXCEPT ![p] = "member"]
          /\ hist' = [hist EXCEPT ![p] =
                        [NoHist EXCEPT !.calls = <<Call("getMemberByName", memberName)>>,
                                       !.expired = ExpiredEntry(memberCache, memberName, now),
                                       !.absent = ~Listed(upstream, memberName)]]
          /\ UNCHANGED resp
  /\ UNCHANGED <<upstream, now, memberCache>>

\* GET /metrics: getAllMetrics -> updateMetricsForAllMembers(), up to the await
\* of getAllMembers().
StartAll(p) ==
  /\ pc[p] = "idle"
  /\ registry' = ResetAll(registry)
  /\ pc' = [pc EXCEPT ![p] = "list"]
  /\ req' = [req EXCEPT ![p] = [NoReq EXCEPT !.op = "all"]]
  /\ hist' = [hist EXCEPT ![p] = [NoHist EXCEPT !.calls = <<Call("getAllMembers", "")>>]]
  /\ UNCHANGED <<upstream, now, memberCache, resp>>

\* getAllMembers() returns (ok) or throws; on a throw getAllMetrics answers 500.
ListResp(p, ok) ==
  /\ pc[p] = "list"
  /\ IF ok
     THEN ContinueAll(p, registry, memberCache,
                      [i \in 1..Len(upstream.members) |-> upstream.members[i].name], 1, hist[p])
     ELSE /\ Respond(p, 500, EmptyRegistry)
          /\ UNCHANGED <<registry, req, hist>>
  /\ UNCHANGED <<upstream, now, memberCache>>

\* getCachedOrFetchMemberData failed with this message: updateMetricsForMember
\* lets it through to the controller, updateMetricsForAllMembers skips the
\* member.  h is the history of p so far.
MemberFailedNoCatch(p, message, h) ==
  /\ Respond(p, MemberErrorStatus(message), EmptyRegistry)
  /\ hist' = [hist EXCEPT ![p] = h]
  /\ UNCHANGED <<registry, req>>

MemberFailed(p, message, h) ==
  IF req[p].op = "one"
  THEN /\ Respond(p, MemberErrorStatus(message), EmptyRegistry)
       /\ hist' = [hist EXCEPT ![p] = h]
       /\ UNCHANGED <<registry, req>>
  ELSE ContinueAll(p, registry, memberCache, req[p].members, req[p].idx + 1,
                   [h EXCEPT !.skipped = Append(@, req[p].name)])

\* getCachedOrFetchMemberData after "await getMemberByName": the call threw
\* with this message (~ok), or returned found, the member as a sequence of
\* length <= 1.  h is the history of p so far.
MemberLooked(p, ok, found, message, h) ==
  IF ~ok \/ found = <<>>
  THEN MemberFailed(p, IF ok THEN NotFoundMessage(req[p].name) ELSE message, h)
  ELSE /\ pc' = [pc EXCEPT ![p] = "events"]
       /\ req' = [req EXCEPT ![p].member = found]
       /\ hist' = [hist EXCEPT ![p] =
                     [h EXCEPT !.calls = Append(@, Call("getDowntimeEvents", req[p].name))]]
       /\ UNCHANGED <<registry, resp>>

\* getMemberByName(memberName) returns (ok) or throws one of the errors of axios.
MemberResp(p, ok) ==
  /\ pc[p] = "member"
  /\ \E message \in TransportMessages :
       MemberLooked(p, ok, getMemberByName(upstream.members, req[p].name), message,
                    [hist[p] EXCEPT
                       !.lookup = IF ~ok THEN "failed"
                                  ELSE IF Listed(upstream, req[p].name) THEN "present"
                                  ELSE "absent",
                       !.absent = @ /\ ~Listed(upstream, req[p].name)])
  /\ UNCHANGED <<upstream, now, memberCache>>

\* getDowntimeEvents(memberName, start, end) returns (ok) or throws; a throw is
\* logged and downtimeEvents stays [].
EventsResp(p, ok) ==
  /\ pc[p] = "events"
  /\ pc' = [pc EXCEPT ![p] = "config"]
  /\ req' = [req EXCEPT ![p].events = IF ok THEN upstream.events[req[p].name] ELSE <<>>]
  /\ hist' = [hist EXCEPT ![p].calls = Append(@, Call("getServicesConfig", req[p].name)),
                          ![p].served = <<[eventsOk |-> ok, events |-> upstream.events[req[p].name]]>>]
  /\ UNCHANGED <<upstream, now, memberCache, registry, resp>>

\* getCachedOrFetchMemberData from "memberCache.set(memberName, cachedData)"
\* on, and what its caller does with cachedData.  h is the history of p once
\* the fill is complete.
Filled(p, cachedData, h) ==
  /\ memberCache' = CacheSet(memberCache, req[p].name, cachedData)
  /\ IF req[p].op = "one"
     THEN /\ Rendered(p, ReconcileOne(registry, cachedData))
          /\ hist' = [hist EXCEPT ![p] = [h EXCEPT !.used = Append(@, cachedData)]]
          /\ UNCHANGED req
     ELSE ContinueAll(p, ReconcileAll(registry, cachedData),
                      CacheSet(memberCache, req[p].name, cachedData),
                      req[p].members, req[p].idx + 1,
                      [h EXCEPT !.used = Append(@, cachedData)])

\* getServicesConfig() returns (ok) or throws; the entry is stored and the
\* caller reconciles it.
ConfigResp(p, ok) ==
  /\ pc[p] = "config"
  /\ Filled(p,
            CachedData(req[p].member[1], req[p].events, ok, upstream.servicesConfig, now),
            [hist[p] EXCEPT
               !.served = <<>>,
               !.fills = Append(@, [name |-> req[p].name,
                                    member |-> req[p].member[1],
                                    eventsOk |-> hist[p].served[1].eventsOk,
                                    events |-> hist[p].served[1].events,
                                    configOk |-> ok,
                                    servicesConfig |-> upstream.servicesConfig])])
  /\ UNCHANGED <<upstream, now>>

\* The client has the response; the handler is free for the next request.
Ack(p) ==
  /\ pc[p] = "done"
  /\ pc' = [pc EXCEPT ![p] = "idle"]
  /\ req' = [req EXCEPT ![p] = NoReq]
  /\ resp' = [resp EXCEPT ![p] = NoResp]
  /\ hist' = [hist EXCEPT ![p] = NoHist]
  /\ UNCHANGED <<upstream, now, memberCache, registry>>

\* Time passes, up to maxTicks steps of TickMs.
Tick(maxTicks) ==
  /\ now < maxTicks * TickMs
  /\ now' = now + TickMs
  /\ UNCHANGED <<upstream, memberCache, registry, pc, req, resp, hist>>

UpstreamChange ==
  /\ \E i \in 1..(Len(WorldScript) - 1) : upstream = WorldScript[i] /\ upstream' = WorldScript[i + 1]
  /\ UNCHANGED <<now, memberCache, registry, pc, req, resp, hist>>

\* Any interleaving of the handlers' runs, one request per handler, while
\* the upstream serves any one of the datasets of WorldScript.
Next ==
  \/ \E p \in Procs, n \in MemberNames : StartOne(p, n)
  \/ \E p \in Procs : StartAll(p)
  \/ \E p \in Procs, ok \in BOOLEAN : ListResp(p, ok)
  \/ \E p \in Procs, ok \in BOOLEAN : MemberResp(p, ok)
  \/ \E p \in Procs, ok \in BOOLEAN : EventsResp(p, ok)
  \/ \E p \in Procs, ok \in BOOLEAN : ConfigResp(p, ok)
  \/ Tick(MaxTicksConcurrent)

Spec == InitAny /\ [][Next]_vars

\* The upstream call the handler p awaits returns or fails.
Answer(p) ==
  \E ok \in BOOLEAN :
    ListResp(p, ok) \/ MemberResp(p, ok) \/ EventsResp(p, ok) \/ ConfigResp(p, ok)

\* Requests one after the other, any number of them: the next request starts
\* when the previous response has been delivered.
SeqProc == CHOOSE p \in Procs : TRUE

NextSeq ==
  \/ \E n \in MemberNames : StartOne(SeqProc, n)
  \/ StartAll(SeqProc)
  \/ \E ok \in BOOLEAN : ListResp(SeqProc, ok)
  \/ \E ok \in BOOLEAN : MemberResp(SeqProc, ok)
  \/ \E ok \in BOOLEAN : EventsResp(SeqProc, ok)
  \/ \E ok \in BOOLEAN : ConfigResp(SeqProc, ok)
  \/ Ack(SeqProc)
  \/ Tick(MaxTicks)
  \/ UpstreamChange

SpecSeq == Init /\ [][NextSeq]_vars

\* One request for member A or for all members, on every input of PassWorlds.
NextPass ==
  \/ StartOne(SeqProc, "A")
  \/ StartAll(SeqProc)
  \/ \E ok \in BOOLEAN : ListResp(SeqProc, ok)
  \/ \E ok \in BOOLEAN : MemberResp(SeqProc, ok)
  \/ \E ok \in BOOLEAN : EventsResp(SeqProc, ok)
  \/ \E ok \in BOOLEAN : ConfigResp(SeqProc, ok)

SpecPass == InitPass /\ [][NextPass]_vars

\* The requests before that of handler p have all been answered.
InTurn(p) == \A q \in Procs : q < p => pc[q] = "done"

\* One request per handler, one after the other in the order of Procs, while
\* time passes: the history of every request stays readable.
NextTurns ==
  \/ \E p \in Procs, n \in MemberNames : InTurn(p) /\ StartOne(p, n)
  \/ \E p \in Procs : InTurn(p) /\ StartAll(p)
  \/ \E p \in Procs, ok \in BOOLEAN : ListResp(p, ok)
  \/ \E p \in Procs, ok \in BOOLEAN : MemberResp(p, ok)
  \/ \E p \in Procs, ok \in BOOLEAN : EventsResp(p, ok)
  \/ \E p \in Procs, ok \in BOOLEAN : ConfigResp(p, ok)
  \/ Tick(MaxTicks)

SpecTurns == InitAny /\ [][NextTurns]_vars

\* One refreshAll and, overlapping it in any way, one single-member request
\* per other handler.
NextLive ==
  \/ StartAll(SeqProc)
  \/ \E p \in Procs \ {SeqProc}, n \in MemberNames : StartOne(p, n)
  \/ \E p \in Procs : Answer(p)

\* The positions at which a handler awaits an upstream call.
Awaiting == {"list", "member", "events", "config"}

\* Every upstream call eventually returns or fails: axios is created with a
\* timeout, so a call that gets no answer is rejected.  This is weak fairness
\* of Answer(p), with its enabling condition written out: Answer(p) has no
\* guard but the position of p, and each of its branches assigns every
\* variable and moves pc[p] or appends to hist[p].calls.
AnswerFair(p) == []<>(pc[p] \notin Awaiting) \/ []<><<Answer(p)>>_vars

SpecLive == InitAny /\ [][NextLive]_vars /\ \A p \in Procs : AnswerFair(p)

\* A caller may call getMetrics() MaxRenders times in a row.
MaxRenders == 2

\* getMetrics() called and the text returned, then the registry cleared.
GetMetricsAndReset(p) ==
  /\ pc[p] \in {"idle", "done"}
  /\ pc[p] = "done" => (req[p].op = "render" /\ req[p].calls < MaxRenders)
  /\ req' = [req EXCEPT ![p] = [op |-> "render",
                                calls |-> IF pc[p] = "idle" THEN 1 ELSE req[p].calls + 1]]
  /\ Respond(p, 200, registry)
  /\ registry' = ResetAll(registry)
  /\ UNCHANGED <<upstream, now, memberCache, hist>>

\* getMetrics() on its own: the caller p gets registry.metrics(), for the
\* first time or once more.
GetMetrics(p) ==
  /\ pc[p] \in {"idle", "done"}
  /\ pc[p] = "done" => (req[p].op = "render" /\ req[p].calls < MaxRenders)
  /\ req' = [req EXCEPT ![p] = [op |-> "render",
                                calls |-> IF pc[p] = "idle" THEN 1 ELSE req[p].calls + 1]]
  /\ Respond(p, 200, registry)
  /\ UNCHANGED <<upstream, now, memberCache, registry, hist>>

\* Requests one after the other by one handler, while the other callers only
\* render.
NextRender ==
  \/ \E n \in MemberNames : StartOne(SeqProc, n)
  \/ StartAll(SeqProc)
  \/ \E ok \in BOOLEAN : ListResp(SeqProc, ok)
  \/ \E ok \in BOOLEAN : MemberResp(SeqProc, ok)
  \/ \E ok \in BOOLEAN : EventsResp(SeqProc, ok)
  \/ \E ok \in BOOLEAN : ConfigResp(SeqProc, ok)
  \/ \E p \in Procs \ {SeqProc} : GetMetrics(p)
  \/ \E p \in Procs : Ack(p)

SpecRender == InitAny /\ [][NextRender]_vars

(***************************************************************************)
(* matchServiceFromDomain on its own: every domain below against every     *)
(* list of at most MaxServices of the services below.                      *)
(***************************************************************************)
MaxServices == 2

MatchDomains ==
  { "eth-asset-hub-polkadot.ibp.network", "kusama.ibp.network",
    "unknown-thing.ibp.network", "polkadot.ibp.network",
    "KUSAMA.dotters.network", "asset hub.ibp.network", "ksm", ".ibp.network" }

MatchServices == { "Asset-Hub-Polkadot", "Kusama", "Polkadot", "Asset Hub", "KSM-Bridge" }

MatchCall(domain, availableServices) ==
  [op |-> "match", domain |-> domain, availableServices |-> availableServices]

InitMatch ==
  /\ upstream = WorldScript[1]
  /\ now = 0
  /\ memberCache = [k \in {} |-> 0]
  /\ registry = EmptyRegistry
  /\ pc = [p \in Procs |-> "idle"]
  /\ \E domain \in MatchDomains, availableServices \in SeqsUpTo(MatchServices, MaxServices) :
       req = [p \in Procs |-> MatchCall(domain, availableServices)]
  /\ resp = [p \in Procs |-> NoResp]
  /\ hist = [p \in Procs |-> NoHist]

\* One call of matchServiceFromDomain, with the return statement it took.
Match(p) ==
  /\ pc[p] = "idle"
  /\ Respond(p, 200,
             [service |-> matchServiceFromDomain(req[p].domain, req[p].availableServices),
              stage |-> matchStage(req[p].domain, req[p].availableServices)])
  /\ UNCHANGED <<upstream, now, memberCache, registry, req, hist>>

NextMatch == \E p \in Procs : Match(p)

SpecMatch == InitMatch /\ [][NextMatch]_vars

(***************************************************************************)
(* getRequiredServicesByLevel on its own: two calls on one configuration,  *)
(* any list of at most MaxGroups of the groups below, each at a level of   *)
(* 0..MaxLevel.                                                            *)
(***************************************************************************)
MaxLevel == 3
MaxGroups == 2

Group(level_required, endpoints) ==
  [level_required |-> NumberToString(level_required), endpoints |-> endpoints]

ConfigGroups ==
  { Group(1, <<"polkadot">>),
    Group(2, <<"kusama", "asset-hub-kusama">>),
    Group(3, <<"asset-hub-paseo", "polkadot">>),
    Group(10, <<"paseo">>),
    Group(0, <<>>) }

RequiredCall(level, servicesConfig) ==
  [op |-> "required", level |-> level, servicesConfig |-> servicesConfig]

InitRequired ==
  /\ upstream = WorldScript[1]
  /\ now = 0
  /\ memberCache = [k \in {} |-> 0]
  /\ registry = EmptyRegistry
  /\ pc = [p \in Procs |-> "idle"]
  /\ \E servicesConfig \in SeqsUpTo(ConfigGroups, MaxGroups), levels \in [Procs -> 0..MaxLevel] :
       req = [p \in Procs |-> RequiredCall(levels[p], servicesConfig)]
  /\ resp = [p \in Procs |-> NoResp]
  /\ hist = [p \in Procs |-> NoHist]

\* One call of getRequiredServicesByLevel.
Required(p) ==
  /\ pc[p] = "idle"
  /\ Respond(p, 200, getRequiredServicesByLevel(req[p].level, req[p].servicesConfig))
  /\ UNCHANGED <<upstream, now, memberCache, registry, req, hist>>

NextRequired == \E p \in Procs : Required(p)

SpecRequired == InitRequired /\ [][NextRequired]_vars

(***************************************************************************)
(* Properties.                                                             *)
(***************************************************************************)
Done(p) == pc[p] = "done"
Ok(p) == pc[p] = "done" /\ resp[p].status = 200

\* What the pass of p alone writes: its reconciliations, in order, applied to
\* an empty registry.
RECURSIVE OwnFrom(_, _, _, _)
OwnFrom(op, reg, used, i) ==
  IF i > Len(used) THEN reg
  ELSE OwnFrom(op, IF op = "one" THEN ReconcileOne(reg, used[i]) ELSE ReconcileAll(reg, used[i]),
               used, i + 1)

OwnSeries(p) == OwnFrom(req[p].op, EmptyRegistry, hist[p].used, 1)

MetricNames == {"member", "service", "events"}

\* C1: whatever the interleaving of two requests, the text rendered for a
\* request holds exactly the series its own pass populated: none of another
\* pass, and none missing because another pass reset the registry meanwhile.
C1_RenderIsOwnPass ==
  \A p \in Procs : Ok(p) => resp[p].body = OwnSeries(p)

Range(seq) == {seq[i] : i \in 1..Len(seq)}

\* The events of cachedData that belong to its member.
OwnEvents(cachedData) ==
  {e \in Range(cachedData.downtimeEvents) : e.member_name = cachedData.member.name}

\* C2: when requests do not overlap and the last one is a successful
\* refreshOne(m), every rendered series of the three metrics is labelled m and
\* comes from the data that pass used: nothing of another member, and nothing of
\* an earlier poll of m whose domain/check the data no longer holds.
C2_OnlyLastPass ==
  \A p \in Procs :
    (Ok(p) /\ req[p].op = "one") =>
      LET d == hist[p].used[1]
          body == resp[p].body
      IN  /\ Len(hist[p].used) = 1
          /\ d.member.name = req[p].name
          /\ \A m \in MetricNames : \A k \in DOMAIN body[m] : k.member = req[p].name
          /\ DOMAIN body.member = {MemberLabels(d.member)}
          /\ \A k \in DOMAIN body.events :
               \E e \in OwnEvents(d) :
                 /\ e.domain_name = k.domain /\ e.check_type = k.check_type
                 /\ e.check_name = k.check_name /\ e.status = k.status
          /\ \A k \in DOMAIN body.service :
               \/ \E e \in OwnEvents(d) :
                    /\ e.domain_name = k.domain /\ e.check_type = k.check_type
                    /\ e.check_name = k.check_name
               \/ /\ k.service \in Range(d.member.services)
                  /\ k.domain = createDefaultDomain(k.service)
                  /\ <<k.check_type, k.check_name>> \in
                       {<<"required", "no-stats">>, <<"default", "default">>}
          /\ body = OwnSeries(p)

\* A successful refreshOne("A") after a pass that reconciled B, which found an
\* expired entry of A with events and now reconciles data of A without events.
C2_Witness ==
  \E p \in Procs :
    /\ Ok(p) /\ req[p].op = "one" /\ req[p].name = "A"
    /\ "B" \in DOMAIN memberCache
    /\ Len(hist[p].expired) = 1
    /\ hist[p].expired[1].downtimeEvents # <<>>
    /\ hist[p].used[1].downtimeEvents = <<>>

\* C3: a refreshOne for a member with a stored entry makes no upstream call and
\* returns the entry unchanged when now - fetchedAt < ttl, and starts a new
\* upstream fetch when now - fetchedAt >= ttl; no member lookup is ever issued
\* for a member whose entry is younger than ttl; a completed fetch stores an
\* entry whose fetchedAt is the time the fetch finished.
C3_CacheTtl ==
  [][\A p \in Procs :
       /\ \A n \in MemberNames :
            (pc[p] = "idle" /\ req'[p].op = "one" /\ req'[p].name = n /\ n \in DOMAIN memberCache) =>
              IF now - memberCache[n].fetchedAt < cacheTtlMs
              THEN /\ hist'[p].calls = <<>>
                   /\ memberCache' = memberCache
                   /\ hist'[p].used = <<memberCache[n]>>
                   /\ pc'[p] = "done" /\ resp'[p].status = 200
              ELSE /\ hist'[p].calls = <<Call("getMemberByName", n)>>
                   /\ pc'[p] = "member"
       /\ (Len(hist'[p].calls) > Len(hist[p].calls)
           /\ hist'[p].calls[Len(hist'[p].calls)].api = "getMemberByName") =>
            LET n == hist'[p].calls[Len(hist'[p].calls)].name
            IN  ~(n \in DOMAIN memberCache' /\ now' - memberCache'[n].fetchedAt < cacheTtlMs)
       /\ (pc[p] = "config" /\ pc'[p] # "config") =>
            /\ req[p].name \in DOMAIN memberCache'
            /\ memberCache'[req[p].name].fetchedAt = now'
            /\ \A k \in DOMAIN memberCache : k # req[p].name => memberCache'[k] = memberCache[k]
    ]_vars

\* A refreshOne that found its member's entry exactly ttl old has fetched anew
\* and stored an entry stamped with the time the fetch finished.
C3_Witness ==
  \E p \in Procs :
    /\ Ok(p) /\ req[p].op = "one"
    /\ Len(hist[p].expired) = 1
    /\ now = hist[p].expired[1].fetchedAt + cacheTtlMs
    /\ memberCache[req[p].name].fetchedAt = now
    /\ Len(hist[p].calls) = 3

\* The members of a listing that were not skipped, in listing order.
RECURSIVE Kept(_, _, _)
Kept(members, skipped, i) ==
  IF i > Len(members) THEN <<>>
  ELSE (IF members[i] \in Range(skipped) THEN <<>> ELSE <<members[i]>>)
       \o Kept(members, skipped, i + 1)

\* C4: once refreshAll has the listing, it completes without error whatever
\* the per-member fetches do; the rendered series are those of the listing
\* without the failed members (each reconciled from its cache entry, in listing
\* order) and none is labelled with a failed member's name.
C4_FailedMemberSkipped ==
  \A p \in Procs :
    (Done(p) /\ req[p].op = "all" /\ req[p].idx > 0) =>
      LET kept == Kept(req[p].members, hist[p].skipped, 1)
          body == resp[p].body
      IN  /\ resp[p].status = 200
          /\ \A m \in MetricNames : \A k \in DOMAIN body[m] : k.member \notin Range(hist[p].skipped)
          /\ \A i \in 1..Len(kept) : kept[i] \in DOMAIN memberCache
          /\ body = OwnFrom("all", EmptyRegistry, [i \in 1..Len(kept) |-> memberCache[kept[i]]], 1)

\* A refreshAll over two listed members ended with one skipped and one rendered.
C4_Witness ==
  \E p \in Procs :
    /\ Done(p) /\ req[p].op = "all" /\ Len(req[p].members) = 2
    /\ Len(hist[p].skipped) = 1 /\ Len(hist[p].used) = 1
    /\ DOMAIN resp[p].body.service # {}

\* C5 as claimed: every refreshOne(name) made while the upstream lists no
\* member of that name, and whose member lookup (if any) was answered, ends with
\* NotFound (404), whatever the cache holds for that name.
C5_NotFoundWhateverCached ==
  \A p \in Procs :
    (Done(p) /\ req[p].op = "one" /\ hist[p].absent /\ hist[p].lookup # "failed") =>
      resp[p].status = 404

\* C5 as amended: a refreshOne(name) whose member lookup is answered by an
\* upstream that lists no member of that name ends with NotFound (404), and in
\* refreshAll such a member is skipped; a refreshOne that issued no upstream
\* call (it found an unexpired entry) succeeds from the cache.
C5_NotFoundOnLookup ==
  \A p \in Procs :
    /\ (Done(p) /\ req[p].op = "one" /\ hist[p].lookup = "absent") => resp[p].status = 404
    /\ (Done(p) /\ req[p].op = "one" /\ hist[p].calls = <<>>) =>
         /\ resp[p].status = 200
         /\ hist[p].used = <<memberCache[req[p].name]>>
    /\ (req[p].op = "all" /\ hist[p].lookup = "absent") =>
         /\ hist[p].skipped # <<>>
         /\ \A i \in 1..Len(hist[p].used) :
              hist[p].used[i].member.name # hist[p].skipped[Len(hist[p].skipped)]

\* A refreshOne for a member the upstream no longer lists, of which the cache
\* holds an expired entry, has ended with 404.
C5_Witness ==
  \E p \in Procs :
    /\ Done(p) /\ req[p].op = "one" /\ hist[p].lookup = "absent" /\ hist[p].absent
    /\ resp[p].status = 404
    /\ hist[p].expired # <<>>

\* The display names of the endpoints of every tier group whose level_required
\* is at most level.
ExpectedRequired(level, servicesConfig) ==
  UNION { { CapitalizeWords(servicesConfig[g].endpoints[j]) :
              j \in 1..Len(servicesConfig[g].endpoints) } :
          g \in { g \in 1..Len(servicesConfig) :
                    NumGeq(level, ParseInt(servicesConfig[g].level_required)) } }

\* C6: every completed cache fill stored, under the member's name, the member
\* record fetched, the events fetched (none if the events call failed) and the
\* required set derived from the configuration fetched (empty if the
\* configuration call failed), each failure leaving the other part intact; the
\* member gauge of that member is in the registry; and a refreshOne that hits
\* the cache returns the stored entry as it is, degraded or not.
C6_PartialFailureDegrades ==
  \A p \in Procs :
    /\ \A i \in 1..Len(hist[p].fills) :
         LET f == hist[p].fills[i]
         IN  /\ f.name \in DOMAIN memberCache
             /\ memberCache[f.name].member = f.member
             /\ memberCache[f.name].downtimeEvents = (IF f.eventsOk THEN f.events ELSE <<>>)
             /\ SeqSet(memberCache[f.name].requiredServices) =
                  (IF f.configOk THEN ExpectedRequired(f.member.level, f.servicesConfig) ELSE {})
             /\ MemberLabels(f.member) \in DOMAIN registry.member
             /\ registry.member[MemberLabels(f.member)] = (IF f.member.active THEN 1 ELSE 0)
             /\ memberCache[f.name] \in Range(hist[p].used)
    /\ (Ok(p) /\ req[p].op = "one" /\ hist[p].calls = <<>>) =>
         hist[p].used = <<memberCache[req[p].name]>>
    /\ (Done(p) /\ req[p].op = "one" /\ hist[p].lookup = "present") => resp[p].status = 200

\* A refreshAll has served A from a cache entry stored without configuration
\* and has filled B's entry although B's events call failed: B's entry has no
\* events (the upstream has some) and a derived required set.
C6_Witness ==
  \E p \in Procs :
    /\ Ok(p) /\ req[p].op = "all"
    /\ Len(hist[p].used) = 2 /\ Len(hist[p].fills) = 1
    /\ hist[p].used[1].member.name = "A"
    /\ hist[p].used[1].servicesConfig = <<>>
    /\ hist[p].fills[1].name = "B"
    /\ ~hist[p].fills[1].eventsOk /\ hist[p].fills[1].events # <<>>
    /\ hist[p].fills[1].configOk
    /\ memberCache["B"].requiredServices # <<>>
    /\ memberCache["B"].downtimeEvents = <<>>

\* The service-gauge labels of event e of the member of cachedData.
EventSeries(cachedData, e) ==
  ServiceLabels(cachedData.member,
                matchServiceFromDomain(e.domain_name, cachedData.member.services),
                e.domain_name, e.check_type, e.check_name)

SameCheck(e, f) ==
  /\ e.domain_name = f.domain_name
  /\ e.check_type = f.check_type
  /\ e.check_name = f.check_name

\* The events of the member of cachedData that no later event of that member
\* on the same (domain, check_type, check_name) follows.
LastOwnEvents(cachedData) ==
  LET evs == cachedData.downtimeEvents
      own(i) == evs[i].member_name = cachedData.member.name
  IN  { evs[i] : i \in { i \in 1..Len(evs) :
                           /\ own(i)
                           /\ \A j \in (i + 1)..Len(evs) : ~(own(j) /\ SameCheck(evs[i], evs[j])) } }

\* Some event of the member of cachedData resolved to service.
HasOwnEvent(cachedData, service) ==
  \E e \in OwnEvents(cachedData) :
    matchServiceFromDomain(e.domain_name, cachedData.member.services) = service

\* C7 as claimed: after a completed pass, for every event e of the reconciled
\* member the service gauge at e's label tuple is 0 if e is ongoing and 1
\* otherwise, also when several of its events share one (domain, check_type,
\* check_name) with different statuses.
C7_EveryEventDecides ==
  \A p \in Procs :
    Ok(p) =>
      \A d \in Range(hist[p].used) : \A e \in OwnEvents(d) :
        /\ EventSeries(d, e) \in DOMAIN resp[p].body.service
        /\ resp[p].body.service[EventSeries(d, e)] = (IF e.status = "ongoing" THEN 0 ELSE 1)

\* C7 as amended: after a completed pass, every event of the reconciled member
\* has its label tuple in the service gauge, and the value there is 0 if the
\* last event of that member on the same (domain, check_type, check_name), in
\* list order, is ongoing and 1 otherwise.
C7_LastEventDecides ==
  \A p \in Procs :
    Ok(p) =>
      \A d \in Range(hist[p].used) :
        /\ \A e \in OwnEvents(d) : EventSeries(d, e) \in DOMAIN resp[p].body.service
        /\ \A e \in LastOwnEvents(d) :
             resp[p].body.service[EventSeries(d, e)] = (IF e.status = "ongoing" THEN 0 ELSE 1)

\* A pass has reconciled a member with an ongoing event followed by a resolved
\* event on the same check, and the gauge there is 1.
C7_Witness ==
  \E p \in Procs :
    /\ Ok(p)
    /\ \E d \in Range(hist[p].used) :
         /\ Len(d.downtimeEvents) = 2
         /\ d.downtimeEvents[1].member_name = d.member.name
         /\ d.downtimeEvents[2].member_name = d.member.name
         /\ SameCheck(d.downtimeEvents[1], d.downtimeEvents[2])
         /\ d.downtimeEvents[1].status = "ongoing"
         /\ d.downtimeEvents[2].status = "resolved"
         /\ resp[p].body.service[EventSeries(d, d.downtimeEvents[1])] = 1

\* C8: after a completed pass for member M, every service required by M's tier
\* and declared by M, to which no event of M resolved, has the service-gauge
\* series (M, service, <slug>.ibp.network, required, no-stats) with value 1,
\* whether M is active or not.
C8_RequiredWithoutEventsUp ==
  \A p \in Procs :
    Ok(p) =>
      \A d \in Range(hist[p].used) :
        \A sv \in SeqSet(d.requiredServices) \cap Range(d.member.services) :
          ~HasOwnEvent(d, sv) =>
            LET k == ServiceLabels(d.member, sv, ServiceSlug(sv) \o ".ibp.network",
                                   "required", "no-stats")
            IN  k \in DOMAIN resp[p].body.service /\ resp[p].body.service[k] = 1

\* C9: after a completed pass for an active member M, every service M
\* declares, to which no event of M resolved and which is not in M's required
\* set, has the service-gauge series (M, service, <slug>.ibp.network, default,
\* default) with value 1.
C9_DeclaredWithoutEventsUp ==
  \A p \in Procs :
    Ok(p) =>
      \A d \in Range(hist[p].used) :
        d.member.active =>
          \A sv \in Range(d.member.services) \ SeqSet(d.requiredServices) :
            ~HasOwnEvent(d, sv) =>
              LET k == ServiceLabels(d.member, sv, ServiceSlug(sv) \o ".ibp.network",
                                     "default", "default")
              IN  k \in DOMAIN resp[p].body.service /\ resp[p].body.service[k] = 1

\* C10: in every state, a service-gauge series labelled default/default of a
\* member reconciled from a record with active = false is the series of one of
\* that member's events, never one synthesized for a service without events.
C10_NoDefaultForInactive ==
  \A p \in Procs :
    \A d \in Range(hist[p].used) :
      ~d.member.active =>
        \A k \in DOMAIN registry.service :
          (k.member = d.member.name /\ k.check_type = "default" /\ k.check_name = "default") =>
            \E e \in OwnEvents(d) : k = EventSeries(d, e)

\* A pass has reconciled an inactive member that declares a service which no
\* event resolved to and which its tier does not require.
C10_Witness ==
  \E p \in Procs :
    /\ Ok(p)
    /\ \E d \in Range(hist[p].used) :
         /\ ~d.member.active
         /\ \E sv \in Range(d.member.services) \ SeqSet(d.requiredServices) :
              /\ \A e \in Range(d.downtimeEvents) :
                   matchServiceFromDomain(e.domain_name, d.member.services) # sv
              /\ \A e \in Range(d.downtimeEvents) :
                   ~(e.check_type = "default" /\ e.domain_name = createDefaultDomain(sv))
         /\ \E e \in OwnEvents(d) : e.check_type = "default"

\* The service-gauge series of cachedData's member that are not the series of
\* one of its own events.
SynthesizedSeries(body, d) ==
  { k \in DOMAIN body.service :
      /\ k.member = d.member.name
      /\ \A e \in OwnEvents(d) : k # EventSeries(d, e) }

\* C11 as claimed: after a completed pass for an inactive member M, every
\* service-gauge series of M is the series of one of M's downtime events, so a
\* declared service of M without events has no series at all.
C11_InactiveOnlyEvents ==
  \A p \in Procs :
    Ok(p) =>
      \A d \in Range(hist[p].used) :
        ~d.member.active => SynthesizedSeries(resp[p].body, d) = {}

\* C11 as amended: after a completed pass for an inactive member M, every
\* service-gauge series of M is the series of one of M's downtime events or
\* the required/no-stats series, of value 1, of a service that M's tier requires,
\* that M declares and to which no event of M resolved; a declared service
\* outside the required set to which no event resolved has no series that is
\* not an event's.
C11_InactiveOnlyEventsOrRequired ==
  \A p \in Procs :
    Ok(p) =>
      \A d \in Range(hist[p].used) :
        ~d.member.active =>
          \A k \in SynthesizedSeries(resp[p].body, d) :
            /\ k.service \in SeqSet(d.requiredServices) \cap Range(d.member.services)
            /\ ~HasOwnEvent(d, k.service)
            /\ k = ServiceLabels(d.member, k.service, createDefaultDomain(k.service),
                                 "required", "no-stats")
            /\ resp[p].body.service[k] = 1

\* A pass has reconciled an inactive member that declares a required service
\* and a service outside the required set, both without events: the first has
\* its required/no-stats series, the second has no series.
C11_Witness ==
  \E p \in Procs :
    /\ Ok(p)
    /\ \E d \in Range(hist[p].used) :
         /\ ~d.member.active
         /\ d.downtimeEvents = <<>>
         /\ \E sv \in Range(d.member.services) \ SeqSet(d.requiredServices) :
              \A k \in DOMAIN resp[p].body.service : k.service # sv
         /\ \E sv \in Range(d.member.services) \cap SeqSet(d.requiredServices) :
              ServiceLabels(d.member, sv, createDefaultDomain(sv), "required", "no-stats")
                \in DOMAIN resp[p].body.service

\* C12: after a completed pass (refreshOne or refreshAll) that reconciles an
\* active member M, every service M declares has at least one service-gauge
\* series labelled with M and that service, whatever the event list.
C12_EveryDeclaredServiceAppears ==
  \A p \in Procs :
    Ok(p) =>
      \A d \in Range(hist[p].used) :
        d.member.active =>
          \A sv \in Range(d.member.services) :
            \E k \in DOMAIN resp[p].body.service :
              k.member = d.member.name /\ k.service = sv

\* cachedData with the events of other members removed from its event list.
WithoutForeign(cachedData) ==
  LET own(e) == e.member_name = cachedData.member.name
  IN  [cachedData EXCEPT !.downtimeEvents = SelectSeq(@, own)]

\* C13: an event whose member_name differs from the member under
\* reconciliation is ignored: the series a completed pass (refreshOne or
\* refreshAll) leaves are those the same pass leaves from the same data
\* without such events.
C13_ForeignEventIgnored ==
  \A p \in Procs :
    Ok(p) =>
      resp[p].body =
        OwnFrom(req[p].op, EmptyRegistry,
                [i \in 1..Len(hist[p].used) |-> WithoutForeign(hist[p].used[i])], 1)

\* The cache holds an entry of member n younger than the TTL at time t.
Fresh(cache, n, t) == n \in DOMAIN cache /\ t - cache[n].fetchedAt < cacheTtlMs

\* The positions of its listing that a step of refreshAll's member loop
\* passes without awaiting the upstream.
LoopPassed(p) ==
  IF req'[p].op = "all" /\ req'[p].idx > 0
     /\ (pc[p] = "list" \/ (pc[p] \in {"member", "config"} /\ req'[p].idx > req[p].idx))
  THEN (IF pc[p] = "list" THEN 1 ELSE req[p].idx + 1)..(req'[p].idx - 1)
  ELSE {}

\* C14: the TTL applies per member key, whatever operation filled the entry.
\* A step changes no cache entry but that of the member whose fill it
\* completes; refreshOne(n) on an entry younger than ttl issues no upstream
\* call and uses the entry, whoever stored it; refreshAll uses the stored entry
\* of every listed member it reaches whose entry is younger than ttl, issuing no
\* upstream call for it, and fetches a member it reaches only when that member
\* has no entry younger than ttl.
C14_TtlPerKey ==
  [][/\ DOMAIN memberCache \subseteq DOMAIN memberCache'
     /\ \A k \in DOMAIN memberCache' :
          (k \notin DOMAIN memberCache \/ memberCache'[k] # memberCache[k]) =>
            \E q \in Procs : pc[q] = "config" /\ pc'[q] # "config" /\ req[q].name = k
     /\ \A p \in Procs :
       /\ \A n \in MemberNames :
            (pc[p] = "idle" /\ req'[p].op = "one" /\ req'[p].name = n
             /\ Fresh(memberCache, n, now)) =>
              /\ hist'[p].calls = <<>>
              /\ hist'[p].used = <<memberCache[n]>>
              /\ memberCache' = memberCache
       /\ \A j \in LoopPassed(p) :
            LET n == req'[p].members[j]
            IN  /\ Fresh(memberCache', n, now)
                /\ memberCache'[n] \in Range(hist'[p].used)
                /\ n # req[p].name =>
                     /\ n \in DOMAIN memberCache /\ memberCache'[n] = memberCache[n]
                     /\ \A c \in Range(hist'[p].calls) : c.name # n
       /\ (req'[p].op = "all" /\ pc'[p] = "member"
           /\ (pc[p] # "member" \/ req'[p].idx > req[p].idx)) =>
            ~Fresh(memberCache', req'[p].name, now)
    ]_vars

\* The first request was a refreshOne("A") that filled A's entry and the
\* second a refreshAll that, within the TTL but at a later time, used that entry
\* without any upstream call for A and fetched B.
C14_Witness ==
  /\ Ok(1) /\ req[1].op = "one" /\ req[1].name = "A" /\ Len(hist[1].fills) = 1
  /\ Ok(2) /\ req[2].op = "all" /\ Len(hist[2].used) = 2
  /\ hist[2].used[1] = hist[1].used[1]
  /\ memberCache["A"] = hist[1].used[1]
  /\ \A c \in Range(hist[2].calls) : c.name # "A"
  /\ \E c \in Range(hist[2].calls) : c.name = "B"
  /\ "B" \in DOMAIN memberCache
  /\ memberCache["B"].fetchedAt > memberCache["A"].fetchedAt

\* How many events of the data used carry the event-counter label tuple k.
EventCount(used, k) ==
  Cardinality({ ij \in { <<i, j>> : i \in 1..Len(used), j \in 1..MaxEvents } :
                  /\ ij[2] <= Len(used[ij[1]].downtimeEvents)
                  /\ used[ij[1]].downtimeEvents[ij[2]].member_name = used[ij[1]].member.name
                  /\ k = EventLabels(used[ij[1]].member,
                                     EventSeries(used[ij[1]], used[ij[1]].downtimeEvents[ij[2]]).service,
                                     used[ij[1]].downtimeEvents[ij[2]]) })

\* C15: in every rendered exposition the event counter at each label tuple
\* equals the number of events with that tuple in the member data the pass
\* used (and the tuple of every such event is there), also when passes
\* follow each other or overlap.
C15_CounterIsEventCount ==
  \A p \in Procs :
    Ok(p) =>
      /\ \A k \in DOMAIN resp[p].body.events :
           resp[p].body.events[k] = EventCount(hist[p].used, k)
      /\ \A d \in Range(hist[p].used) : \A e \in OwnEvents(d) :
           EventLabels(d.member, EventSeries(d, e).service, e) \in DOMAIN resp[p].body.events

\* The call matchServiceFromDomain(domain, availableServices) has returned
\* service through the return statement stage.
Matched(p, domain, availableServices, service, stage) ==
  (Done(p) /\ req[p].domain = domain /\ req[p].availableServices = availableServices) =>
    (resp[p].body.service = service /\ resp[p].body.stage = stage)

\* C16 as claimed: "eth-asset-hub-polkadot.ibp.network" against
\* ["Asset-Hub-Polkadot"] returns "Asset-Hub-Polkadot" through the substring
\* stage; "kusama.ibp.network" against ["Kusama"] returns "Kusama" through the
\* reconstructed-name stage, not the substring stage;
\* "unknown-thing.ibp.network" against ["Polkadot"] returns "Unknown-Thing"
\* through the fallback stage.
C16_DocumentedCases ==
  \A p \in Procs :
    /\ Matched(p, "eth-asset-hub-polkadot.ibp.network", <<"Asset-Hub-Polkadot">>,
               "Asset-Hub-Polkadot", "substring")
    /\ Matched(p, "kusama.ibp.network", <<"Kusama">>, "Kusama", "reconstructed")
    /\ Matched(p, "unknown-thing.ibp.network", <<"Polkadot">>, "Unknown-Thing", "fallback")

\* C16 as amended: the same three results, "kusama.ibp.network" against
\* ["Kusama"] being resolved by the substring stage like the first case; the
\* reconstructed-name stage decides only when no service's slug contains or is
\* contained in the domain prefix, which takes a service name whose slug differs
\* from its lower-cased name.
C16_DocumentedCasesBySubstring ==
  \A p \in Procs :
    /\ Matched(p, "eth-asset-hub-polkadot.ibp.network", <<"Asset-Hub-Polkadot">>,
               "Asset-Hub-Polkadot", "substring")
    /\ Matched(p, "kusama.ibp.network", <<"Kusama">>, "Kusama", "substring")
    /\ Matched(p, "unknown-thing.ibp.network", <<"Polkadot">>, "Unknown-Thing", "fallback")
    /\ (Done(p) /\ resp[p].body.stage = "reconstructed") =>
         /\ resp[p].body.service \in Range(req[p].availableServices)
         /\ ToLowerCase(resp[p].body.service) = DomainPrefix(req[p].domain)
         /\ ServiceSlug(resp[p].body.service) # ToLowerCase(resp[p].body.service)

\* The call for "kusama.ibp.network" against ["Kusama"] has returned "Kusama"
\* from the first loop.
C16_Witness ==
  \E p \in Procs :
    /\ Done(p) /\ req[p].domain = "kusama.ibp.network"
    /\ req[p].availableServices = <<"Kusama">>
    /\ resp[p].body = [service |-> "Kusama", stage |-> "substring"]

\* C17: getMetrics() is non-destructive: a call leaves the three series and
\* the member cache as they are and returns the text of the current series, so
\* a call that follows another with the series unchanged in between returns
\* the same text.
C17_RenderNonDestructive ==
  [][\A p \in Procs :
       (req'[p].op = "render" /\ (pc[p] = "idle" \/ req'[p].calls > req[p].calls)) =>
         /\ registry' = registry
         /\ memberCache' = memberCache
         /\ resp'[p].body = registry
         /\ (pc[p] = "done" /\ resp[p].body = registry) => resp'[p] = resp[p]
    ]_vars

\* A caller has called getMetrics() MaxRenders times in a row on a registry
\* that holds series, and the series and the cache entries are still there.
C17_Witness ==
  \E p \in Procs :
    /\ Done(p) /\ req[p].op = "render" /\ req[p].calls = MaxRenders
    /\ DOMAIN registry.service # {} /\ DOMAIN registry.events # {}
    /\ resp[p].body = registry
    /\ DOMAIN memberCache # {}

\* C18: a single-member request ends with 404 exactly when its member lookup
\* was answered by an upstream that lists no member of that name, with 500
\* exactly when its member lookup failed otherwise, and with 200 in every other
\* case, whatever its events and config sub-fetches did; an all-members
\* request ends with 500 exactly when the listing failed, never with 404.
C18_StatusByFailure ==
  \A p \in Procs :
    /\ (Done(p) /\ req[p].op = "one") =>
         /\ resp[p].status = 404 <=> hist[p].lookup = "absent"
         /\ resp[p].status = 500 <=> hist[p].lookup = "failed"
         /\ resp[p].status = 200 <=> (hist[p].lookup = "present" \/ hist[p].calls = <<>>)
         /\ hist[p].lookup = "present" => Len(hist[p].fills) = 1
    /\ (Done(p) /\ req[p].op = "all") =>
         /\ resp[p].status = 500 <=> req[p].idx = 0
         /\ resp[p].status = 200 <=> req[p].idx > 0
         /\ req[p].idx = 0 => hist[p].calls = <<Call("getAllMembers", "")>>

\* Of two single-member requests, one has ended with 404 for a member the
\* upstream does not list and the other with 200 although both its events and
\* its config sub-fetch failed.
C18_Witness ==
  \E p, q \in Procs :
    /\ Done(p) /\ req[p].op = "one" /\ resp[p].status = 404 /\ hist[p].lookup = "absent"
    /\ Done(q) /\ req[q].op = "one" /\ resp[q].status = 200
    /\ Len(hist[q].fills) = 1
    /\ ~hist[q].fills[1].eventsOk /\ ~hist[q].fills[1].configOk

CallsFor(api, n) ==
  { pi \in { <<p, i>> : p \in Procs, i \in 1..3 * Cardinality(MemberNames) + 1 } :
      /\ pi[2] <= Len(hist[pi[1]].calls)
      /\ hist[pi[1]].calls[pi[2]] = Call(api, n) }

\* The completed cache fills for member n by all requests so far.
FillsFor(n) ==
  { pi \in { <<p, i>> : p \in Procs, i \in 1..Cardinality(MemberNames) } :
      /\ pi[2] <= Len(hist[pi[1]].fills)
      /\ hist[pi[1]].fills[pi[2]].name = n }

\* C20: whatever the interleaving of the getOrFetch calls for one member name
\* that start within one TTL window (here no request outlives the window
\* that starts with the first), a second one starting while the first is
\* suspended included, the events and config of that name are fetched at most
\* once and its cache entry is written at most once.
C20_OneFetchPerWindow ==
  \A n \in MemberNames :
    /\ Cardinality(CallsFor("getDowntimeEvents", n)) <= 1
    /\ Cardinality(CallsFor("getServicesConfig", n)) <= 1
    /\ Cardinality(FillsFor(n)) <= 1

\* C21: refreshOne and refreshAll apply the same reconciliation: the series a
\* completed refreshOne(m) leaves are those refreshAll leaves from the same
\* cached data of m when m is the only member reconciled, and conversely,
\* whatever the event list.
C21_SameReconciliation ==
  \A p \in Procs :
    (Ok(p) /\ Len(hist[p].used) = 1) =>
      /\ req[p].op = "one" => resp[p].body = ReconcileAll(EmptyRegistry, hist[p].used[1])
      /\ req[p].op = "all" => resp[p].body = ReconcileOne(EmptyRegistry, hist[p].used[1])

DisplayName ==
  [e \in {"polkadot", "kusama", "asset-hub-kusama", "asset-hub-paseo", "paseo"} |->
     CASE e = "polkadot" -> "Polkadot"
       [] e = "kusama" -> "Kusama"
       [] e = "asset-hub-kusama" -> "Asset-Hub-Kusama"
       [] e = "asset-hub-paseo" -> "Asset-Hub-Paseo"
       [] e = "paseo" -> "Paseo"]

\* C23: getRequiredServicesByLevel(level, config) returns exactly the display
\* names of the endpoints of the groups whose level_required is <= level,
\* each once; so the result is empty when no group qualifies, and the result at
\* a level is contained in the result at any higher level on the same config.
C23_RequiredByLevel ==
  \A p \in Procs :
    Done(p) =>
      LET r == resp[p].body
          expected ==
            UNION { { DisplayName[g.endpoints[j]] : j \in 1..Len(g.endpoints) } :
                    g \in { g \in Range(req[p].servicesConfig) :
                              \E n \in 0..req[p].level : g.level_required = NumberToString(n) } }
      IN  /\ SeqSet(r) = expected
          /\ Cardinality(SeqSet(r)) = Len(r)
          /\ \A q \in Procs :
               (Done(q) /\ req[p].level <= req[q].level) => SeqSet(r) \subseteq SeqSet(resp[q].body)

\* Two calls on one configuration of two groups that share an endpoint have
\* returned: the one at the lower level a non-empty set, the one at the higher
\* level a strictly larger one.
C23_Witness ==
  \E p, q \in Procs :
    /\ Done(p) /\ Done(q)
    /\ req[p].level < req[q].level
    /\ Len(req[p].servicesConfig) = MaxGroups
    /\ resp[p].body # <<>>
    /\ SeqSet(resp[p].body) # SeqSet(resp[q].body)
    /\ \E i, j \in 1..Len(req[p].servicesConfig) :
         /\ i # j
         /\ Range(req[p].servicesConfig[i].endpoints)
              \cap Range(req[p].servicesConfig[j].endpoints) # {}

\* The loop state of a pass of operation op over cachedData when its event
\* loop ends.
AfterEvents(op, cachedData) ==
  IF op = "one"
  THEN EventLoopOne(PassState(SetMemberStatus(EmptyRegistry, cachedData.member)),
                    cachedData.member, cachedData.downtimeEvents, 1)
  ELSE EventLoopAll(PassState(SetMemberStatus(EmptyRegistry, cachedData.member)),
                    cachedData.member, cachedData.downtimeEvents, 1)

\* The service-gauge series of cachedData's member that the pass wrote after
\* its event loop.
WrittenAfterEvents(op, body, cachedData) ==
  { k \in DOMAIN body.service : k.member = cachedData.member.name }
    \ DOMAIN AfterEvents(op, cachedData).reg.service

\* C24: within one pass for one member, every series the event loop wrote
\* keeps its value; a series synthesized afterwards is required/no-stats or
\* default/default of value 1 for a declared service to which no event of the
\* member resolved, on a (domain, check_type, check_name) combination that no
\* event had recorded; and no service receives two synthesized series.
C24_NoDoubleSynthesized ==
  \A p \in Procs :
    Ok(p) =>
      \A d \in Range(hist[p].used) :
        LET fromEvents == AfterEvents(req[p].op, d)
            synthesized == WrittenAfterEvents(req[p].op, resp[p].body, d)
        IN  /\ \A k \in DOMAIN fromEvents.reg.service :
                 /\ k \in DOMAIN resp[p].body.service
                 /\ resp[p].body.service[k] = fromEvents.reg.service[k]
            /\ \A k \in synthesized :
                 /\ CombinationKey(k.domain, k.check_type, k.check_name)
                      \notin fromEvents.trackedCombinations
                 /\ k.service \in Range(d.member.services)
                 /\ ~HasOwnEvent(d, k.service)
                 /\ <<k.check_type, k.check_name>> \in
                      {<<"required", "no-stats">>, <<"default", "default">>}
                 /\ resp[p].body.service[k] = 1
            /\ \A k1, k2 \in synthesized : k1.service = k2.service => k1 = k2

\* A pass has reconciled a member with a declared service to which no event
\* resolved and whose synthesized combination an event of the member had
\* recorded under another service: that service has no synthesized series.
C24_Witness ==
  \E p \in Procs :
    /\ Ok(p)
    /\ \E d \in Range(hist[p].used) :
         /\ \E sv \in Range(d.member.services) :
              /\ ~HasOwnEvent(d, sv)
              /\ \E e \in OwnEvents(d) :
                   /\ e.domain_name = createDefaultDomain(sv)
                   /\ <<e.check_type, e.check_name>> \in
                        {<<"required", "no-stats">>, <<"default", "default">>}
              /\ \A k \in WrittenAfterEvents(req[p].op, resp[p].body, d) : k.service # sv

\* A refreshOne of p has failed.
FailedOne(p) == pc[p] = "done" /\ req[p].op = "one" /\ resp[p].status # 200

\* C25: a refreshOne that fails at its member lookup (NotFound or transport
\* failure) changes no cache entry from its start to its failure, and leaves
\* the three series empty: the reset runs before the fetch, so what is
\* rendered after the failure holds no series of an earlier pass.
C25_FailureLeavesCacheAndEmptySeries ==
  [][\A p \in Procs :
       /\ (pc[p] = "idle" /\ req'[p].op = "one" /\ pc'[p] = "member") =>
            memberCache' = memberCache /\ registry' = EmptyRegistry
       /\ (pc[p] = "member" /\ req[p].op = "one" /\ pc'[p] = "member") =>
            memberCache' = memberCache /\ registry' = registry
       /\ (pc[p] = "member" /\ req[p].op = "one" /\ pc'[p] = "done") =>
            /\ memberCache' = memberCache
            /\ resp'[p].status \in {404, 500}
            /\ hist'[p].lookup \in {"absent", "failed"}
       /\ (pc'[p] = "done" /\ req'[p].op = "one" /\ resp'[p].status # 200) =>
            registry' = EmptyRegistry
    ]_vars

\* A refreshOne has failed with NotFound for a member of which the cache holds
\* an expired entry, after earlier passes had filled the cache: the entries
\* are still there, the expired one included, and the registry is empty.
C25_Witness ==
  \E p \in Procs :
    /\ FailedOne(p) /\ resp[p].status = 404
    /\ hist[p].expired # <<>>
    /\ req[p].name \in DOMAIN memberCache
    /\ memberCache[req[p].name] = hist[p].expired[1]
    /\ Cardinality(DOMAIN memberCache) = Cardinality(MemberNames)
    /\ registry = EmptyRegistry

\* C26: in every reachable state the entry stored under key k holds a member
\* record named k and a fetchedAt not later than the current time; an entry is
\* never removed, and it changes only in the step that completes a fill for k,
\* which replaces it by the member, events and required set that fill fetched,
\* stamped with the current time; a cache hit and its reconciliation leave
\* every entry as it is.
C26_EntriesReplacedWhole ==
  [][/\ \A k \in DOMAIN memberCache' :
          /\ memberCache'[k].member.name = k
          /\ memberCache'[k].fetchedAt <= now'
     /\ \A k \in DOMAIN memberCache :
          /\ k \in DOMAIN memberCache'
          /\ memberCache'[k] # memberCache[k] =>
               \E q \in Procs :
                 /\ pc[q] = "config" /\ pc'[q] # "config" /\ req[q].name = k
                 /\ memberCache'[k].member = req[q].member[1]
                 /\ memberCache'[k].downtimeEvents = req[q].events
                 /\ memberCache'[k].fetchedAt = now'
                 /\ memberCache'[k].fetchedAt >= memberCache[k].fetchedAt
     /\ \A p \in Procs :
          (pc[p] = "idle" /\ pc'[p] = "done" /\ req'[p].op = "one") =>
            /\ memberCache' = memberCache
            /\ hist'[p].used = <<memberCache[req'[p].name]>>
     /\ \A p \in Procs :
          (Len(hist'[p].used) > Len(hist[p].used) /\ pc[p] # "config") =>
            memberCache' = memberCache
    ]_vars

\* A pass has replaced the expired entry of its member by a later fill that
\* fetched another member record, while the entry of the other member is the
\* one stored earlier.
C26_Witness ==
  \E p \in Procs :
    /\ Ok(p) /\ req[p].op = "one"
    /\ Len(hist[p].expired) = 1 /\ Len(hist[p].fills) = 1
    /\ memberCache[req[p].name].fetchedAt > hist[p].expired[1].fetchedAt
    /\ memberCache[req[p].name].member # hist[p].expired[1].member
    /\ \E k \in DOMAIN memberCache : k # req[p].name /\ memberCache[k].fetchedAt < now

\* The position of member name n in the listing members, 0 if it is not there.
PositionIn(members, n) ==
  IF n \in Range(members) THEN CHOOSE i \in 1..Len(members) : members[i] = n ELSE 0

\* What a refreshAll has done so far: each upstream call issued at most once,
\* the member lookups in listing order; once it has completed, it has failed
\* only if the listing call failed, and otherwise every listed member was
\* reconciled or skipped, once, in listing order.
AllVisitedOnce(p) ==
  LET calls == hist[p].calls
      used == hist[p].used
      skipped == hist[p].skipped
  IN  /\ \A i, j \in 1..Len(calls) : (i < j) => calls[i] # calls[j]
      /\ \A i, j \in 1..Len(calls) :
           (i < j /\ calls[i].api = "getMemberByName" /\ calls[j].api = "getMemberByName") =>
             PositionIn(req[p].members, calls[i].name) < PositionIn(req[p].members, calls[j].name)
      /\ \A i, j \in 1..Len(used) :
           (i < j) => PositionIn(req[p].members, used[i].member.name)
                        < PositionIn(req[p].members, used[j].member.name)
      /\ Done(p) =>
           /\ resp[p].status \in {200, 500}
           /\ resp[p].status = 500 =>
                (req[p].idx = 0 /\ calls = <<Call("getAllMembers", "")>>)
           /\ resp[p].status = 200 =>
                /\ { used[i].member.name : i \in 1..Len(used) } \cup Range(skipped)
                     = Range(req[p].members)
                /\ Len(used) + Len(skipped) = Len(req[p].members)

\* C27: provided every upstream call eventually returns or fails, every
\* refreshAll eventually completes; it visits each member of the listing once,
\* in listing order, issues no upstream call twice, and once it has the listing
\* it completes with success whatever the per-member fetches do: it fails only
\* when the listing call fails.
C27_RefreshAllCompletes ==
  /\ \A p \in Procs : (req[p].op = "all" /\ pc[p] # "done") ~> Done(p)
  /\ [](\A p \in Procs : req[p].op = "all" => AllVisitedOnce(p))

\* A refreshAll over a listing of two members has completed with success
\* after the lookup of the first member failed, once, and the second member was
\* fetched, while another request was under way.
C27_Witness ==
  \E p \in Procs :
    /\ Ok(p) /\ req[p].op = "all" /\ Len(req[p].members) = 2
    /\ hist[p].skipped = <<req[p].members[1]>>
    /\ Len(hist[p].calls) = 5
    /\ Len(hist[p].fills) = 1
    /\ \E q \in Procs : q # p /\ pc[q] \notin {"idle", "done"}

====
